---- MODULE Spec2Model ----
\* Model of the providerauthorizer HTTP middleware
\* (internal/http/interceptors/providerauthorizer/providerauthorizer.go):
\* construction of the middleware by New/getDriver from a raw configuration
\* and the driver registry, and the per-request decision flow of the handler
\* closure New returns.
EXTENDS Integers, Sequences, FiniteSets, TLC

\* ---------------------------------------------------------------- bounds
\* Longest candidate list the identity resolver returns.
MaxUsers == 2

\* ------------------------------------------------------------- constants
defaultPriority == 200
StatusUnauthorized == 401
StatusInternalServerError == 500
StatusBadRequest == 400
DefaultOCMPrefix == "ocm"
SharedGatewaySvc == "shared-gateway"

\* ------------------------------------------------------------ value sets
\* Strings that are split are sequences of one-character strings.
At == "@"
Mails ==
    { <<"a", "@", "x">>,            \* a@x
      <<"b", "@", "y">>,            \* b@y
      <<"a", "x">>,                 \* no '@'
      <<"@", "x">>,                 \* empty local part
      <<"a", "@">>,                 \* empty domain
      <<"a", "@", "x", "@", "y">> } \* two '@'
Usernames == {"alice", "bob"}
Users == [Username : Usernames, Mail : Mails]

\* URL paths are sequences of path segments.
Paths == { <<>>, <<"ocm", "shares">>, <<"fed", "shares">>, <<"api", "ocm">> }
\* What r.BasicAuth() yields for the request's Authorization header.
BasicAuths == { [ok |-> FALSE, username |-> ""] }
              \cup { [ok |-> TRUE, username |-> u] : u \in Usernames }
Requests == [path : Paths, basic : BasicAuths]
NoRequest == [path |-> <<>>, basic |-> [ok |-> FALSE, username |-> "-"]]

\* Per-driver settings bags (map[string]interface{}); kind "nil" is the nil
\* map a Go map lookup yields for a missing key.
NilSettings == [kind |-> "nil", providers |-> {}]
BadSettings == [kind |-> "bad", providers |-> {}]
SettingsBags == { [kind |-> "bag", providers |-> {<<"x">>}],
                  [kind |-> "bag", providers |-> {<<"y">>}],
                  BadSettings }
DriverNames == {"json", "open"}
\* The "drivers" table of the configuration: a map with an entry for every
\* driver, or with none.
DriversTables ==
    UNION { [ns -> SettingsBags] : ns \in { {}, DriverNames } }
\* Values of the raw configuration map carry their dynamic type.
RawStrings(S) == { [type |-> "string", val |-> s] : s \in S }
RawInt == [type |-> "int", val |-> "42"]
RawConfigs ==
    [ driver     : RawStrings({"json", "open", "nope", ""}) \cup {RawInt},
      drivers    : DriversTables,
      ocm_prefix : RawStrings({"", "fed"}),
      gatewaysvc : RawStrings({"", "gw"}) ]
RawEmpty == [type |-> "string", val |-> ""]
NoRawConfig ==
    [ driver |-> RawEmpty, drivers |-> <<>>,
      ocm_prefix |-> RawEmpty, gatewaysvc |-> RawEmpty ]

\* ------------------------------------------------ collaborators of New
\* The driver registry (registry.NewFuncs): driver name -> factory.
Registries == { [n \in DriverNames |-> n \o "Factory"] }

\* An authorizer instance is identified by the factory that built it and the
\* settings bag the factory was given.
NilAuthorizer == [factory |-> "nil", settings |-> NilSettings]
NilConf == [Driver |-> "", Drivers |-> <<>>, OCMPrefix |-> "", GatewaySvc |-> ""]

\* A driver factory, f(settings) -> (Authorizer, error): the list-based
\* driver rejects settings it cannot decode, the open driver accepts any.
Factory(f, settings) ==
    IF f = "jsonFactory" /\ settings.kind = "bad"
    THEN [authorizer |-> NilAuthorizer, err |-> "factory: bad settings"]
    ELSE [authorizer |-> [factory |-> f, settings |-> settings], err |-> "nil"]

\* The verdict of an authorizer instance on a domain: the open driver
\* permits every provider, the list-based one those in its settings.
Verdict(a, domain) ==
    IF a.factory = "openFactory" \/ domain \in a.settings.providers
    THEN "nil" ELSE "provider not authorized"

\* mapstructure.Decode(m, conf): a value of the wrong type for its field is
\* an error; GatewaySvc has no tag and is matched by its field name.
Decode(m) ==
    IF \E k \in {"driver", "ocm_prefix", "gatewaysvc"} : m[k].type # "string"
    THEN [conf |-> NilConf, err |-> "decode: expected type string"]
    ELSE [conf |-> [Driver |-> m.driver.val, Drivers |-> m.drivers,
                    OCMPrefix |-> m.ocm_prefix.val,
                    GatewaySvc |-> m.gatewaysvc.val],
          err |-> "nil"]

\* sharedconf.GetGatewaySVC(val)
GetGatewaySVC(val) == IF val # "" THEN val ELSE SharedGatewaySvc

\* c.Drivers[name]: a Go map read, nil for a missing key.
MapGet(drivers, name) ==
    IF name \in DOMAIN drivers THEN drivers[name] ELSE NilSettings

\* Events of the construction: registry lookups and factory invocations.
BuildEv(kind, name, settings) == [ev |-> kind, name |-> name, settings |-> settings]

getDriver_fallback(funcs, c) ==
    LET f == IF c.Driver \in DOMAIN funcs THEN funcs[c.Driver] ELSE "openFactory"
        s == MapGet(c.Drivers, c.Driver)
        res == Factory(f, s)
    IN [authorizer |-> res.authorizer, err |-> res.err,
        trace |-> << BuildEv("lookup", c.Driver, NilSettings),
                     BuildEv("factory", f, s) >>]

getDriver_otherSettings(funcs, c) ==
    IF c.Driver \in DOMAIN funcs
    THEN LET f == funcs[c.Driver]
             other == IF \E n \in DOMAIN c.Drivers : n # c.Driver
                      THEN CHOOSE n \in DOMAIN c.Drivers : n # c.Driver
                      ELSE c.Driver
             s == MapGet(c.Drivers, other)
             res == Factory(f, s)
         IN [authorizer |-> res.authorizer, err |-> res.err,
             trace |-> << BuildEv("lookup", c.Driver, NilSettings),
                          BuildEv("factory", f, s) >>]
    ELSE [authorizer |-> NilAuthorizer, err |-> "driver not found",
          trace |-> << BuildEv("lookup", c.Driver, NilSettings) >>]

\* getDriver(c), with the registry it reads.
getDriver(funcs, c) ==
    IF c.Driver \in DOMAIN funcs
    THEN LET f == funcs[c.Driver]
             s == MapGet(c.Drivers, c.Driver)
             res == Factory(f, s)
         IN [authorizer |-> res.authorizer, err |-> res.err,
             trace |-> << BuildEv("lookup", c.Driver, NilSettings),
                          BuildEv("factory", f, s) >>]
    ELSE [authorizer |-> NilAuthorizer, err |-> "driver not found",
          trace |-> << BuildEv("lookup", c.Driver, NilSettings) >>]

\* New(m) as far as its return: the decoded configuration with defaults,
\* the authorizer, and the (middleware, priority, error) triple.
NewResult(funcs, m) ==
    LET d == Decode(m) IN
    IF d.err # "nil"
    THEN [conf |-> NilConf, authorizer |-> NilAuthorizer, trace |-> <<>>,
          ret |-> [handler |-> "nil", priority |-> 0, err |-> d.err]]
    ELSE LET c == [d.conf EXCEPT
                     !.GatewaySvc = GetGatewaySVC(d.conf.GatewaySvc),
                     !.OCMPrefix = IF d.conf.OCMPrefix = ""
                                   THEN DefaultOCMPrefix
                                   ELSE d.conf.OCMPrefix]
             g == getDriver(funcs, c)
         IN IF g.err # "nil"
            THEN [conf |-> c, authorizer |-> g.authorizer, trace |-> g.trace,
                  ret |-> [handler |-> "nil", priority |-> 0, err |-> g.err]]
            ELSE [conf |-> c, authorizer |-> g.authorizer, trace |-> g.trace,
                  ret |-> [handler |-> "handler", priority |-> defaultPriority,
                           err |-> "nil"]]

\* ------------------------------------------- helpers of the handler
\* router.ShiftPath(p): the first path segment and the rest.
ShiftPath(p) ==
    IF p = <<>> THEN [head |-> "", tail |-> <<>>]
    ELSE [head |-> Head(p), tail |-> Tail(p)]

\* head != conf.OCMPrefix: the request is outside the protected prefix.
ActivationSkips_never(path, prefix) == FALSE
ActivationSkips(path, prefix) == ShiftPath(path).head # prefix

\* !ok after r.BasicAuth()
BasicAuthMissing_never(req) == FALSE
BasicAuthMissing(req) == ~ req.basic.ok

\* len(domainSplit) != 2
MailMalformed(ds) == Len(ds) # 2

\* domainSplit[1], the argument of IsProviderAllowed (Go indexes from 0).
DomainArg_localPart(ds) == ds[1]
DomainArg(ds) == ds[2]

\* err != nil after IsProviderAllowed
ProviderDenied_never(err) == FALSE
ProviderDenied_exceptCanceled(err) == err \notin {"nil", "context canceled"}
ProviderDenied_onlyVerdict(err) == err = "provider not authorized"
ProviderDenied(err) == err # "nil"

\* strings.Split(s, sep) for a one-character separator.
RECURSIVE Split(_, _)
Split(s, sep) ==
    IF \A i \in 1..Len(s) : s[i] # sep
    THEN << s >>
    ELSE LET i == CHOOSE k \in 1..Len(s) :
                    s[k] = sep /\ \A j \in 1..(k - 1) : s[j] # sep
         IN << SubSeq(s, 1, i - 1) >> \o Split(SubSeq(s, i + 1, Len(s)), sep)

RECURSIVE SelectUser_last(_, _)
SelectUser_last(users, name) ==
    IF users = <<>> THEN <<>>
    ELSE LET rest == SelectUser_last(Tail(users), name) IN
         IF rest # <<>> THEN rest
         ELSE IF Head(users).Username = name THEN << Head(users) >>
         ELSE <<>>

\* The loop over userRes.GetUsers(): the first user with the username, as a
\* pointer (<<>> is nil, <<u>> points to u).
RECURSIVE SelectUser(_, _)
SelectUser(users, name) ==
    IF users = <<>> THEN <<>>
    ELSE IF Head(users).Username = name THEN << Head(users) >>
    ELSE SelectUser(Tail(users), name)

\* Candidate lists the identity resolver can return.
UserLists == UNION { [1..n -> Users] : n \in 0..MaxUsers }

\* What the handler does, in order, while it handles one request.
Ev(kind) == [ev |-> kind, code |-> 0, text |-> "", err |-> "nil",
             dom |-> <<>>, auth |-> NilAuthorizer, req |-> NoRequest]
LogEv(msg) == [Ev("log") EXCEPT !.text = msg]
WriteHeader(code) == [Ev("WriteHeader") EXCEPT !.code = code]
ServeHTTP(req) == [Ev("ServeHTTP") EXCEPT !.req = req]

\* ------------------------------------------------------------------ state
VARIABLES
    NewFuncs,      \* registry.NewFuncs
    rawConfig,     \* the map New was called with
    conf,          \* conf, as the closure captures it
    authorizer,    \* authorizer, as the closure captures it
    mw,            \* what New returned: handler, priority, err
    buildTrace,    \* registry lookups and factory calls of New
    pc,            \* position of the handler in the current request
    r,             \* the current request
    username,      \* handler locals
    userRes,
    userAuth,
    domainSplit,
    trace,         \* events of the current request, in order
    err,           \* err of New, as the closure captures it
    upstream,      \* what the collaborators answer
    other,         \* a second request in flight, while it is not running
    remembered     \* a request handled before, and how it ended

vars == << NewFuncs, rawConfig, conf, authorizer, mw, buildTrace,
           pc, r, username, userRes, userAuth, domainSplit, trace,
           err, upstream, other, remembered >>
built == << NewFuncs, rawConfig, conf, authorizer, mw, buildTrace, err >>
locals == << username, userRes, userAuth, domainSplit >>
sched == << upstream, other, remembered >>

NotBuilt == [handler |-> "unbuilt", priority |-> 0, err |-> "nil"]

\* The collaborators' answers.  Under Spec every call may get any answer;
\* a fixed upstream answers every call of a behaviour the same way: the
\* gateway client, the FindUsers call (an error, or the directory's
\* candidates) and whether the driver fails.
AnyUpstream == [fixed |-> FALSE, gw |-> "nil", findErr |-> "nil",
                users |-> <<>>, fault |-> FALSE]
FixedUserLists ==
    { <<>>,
      << [Username |-> "alice", Mail |-> <<"a", "@", "x">>] >>,
      << [Username |-> "bob", Mail |-> <<"b", "@", "y">>],
         [Username |-> "alice", Mail |-> <<"a", "@", "x">>] >>,
      << [Username |-> "alice", Mail |-> <<"a", "x">>],
         [Username |-> "bob", Mail |-> <<"a", "@">>] >> }
FixedUpstreams ==
    [ fixed : {TRUE}, gw : {"nil", "dial error"}, findErr : {"nil", "rpc error"},
      users : FixedUserLists, fault : BOOLEAN ]
FixedConfigs ==
    [ driver     : RawStrings({"json", "open", "nope"}),
      drivers    : { [n \in DriverNames |->
                        [kind |-> "bag",
                         providers |-> IF n = "json" THEN {<<"x">>} ELSE {<<"y">>}]] },
      ocm_prefix : RawStrings({"", "fed"}),
      gatewaysvc : RawStrings({""}) ]
ConfigChoices == IF upstream.fixed THEN FixedConfigs ELSE RawConfigs

\* A request's handler state while another one runs.
IdleHandler == [pc |-> "idle", r |-> NoRequest, username |-> "", userRes |-> <<>>,
                userAuth |-> <<>>, domainSplit |-> <<>>, trace |-> <<>>]
NoMemory == [set |-> FALSE, old |-> FALSE, req |-> NoRequest,
             outcome |-> [codes |-> <<>>, forwarded |-> 0, panicked |-> FALSE]]

\* ctx.Done(): the request's context was cancelled or timed out.
Cancelled == \E i \in 1..Len(trace) : trace[i].ev = "cancel"

\* The answers a collaborator call can get.
GatewayAnswers == IF upstream.fixed THEN {upstream.gw} ELSE {"nil", "dial error"}
FindAnswers ==
    IF Cancelled THEN { [err |-> "context canceled", users |-> <<>>] }
    ELSE IF upstream.fixed
    THEN { IF upstream.findErr # "nil"
           THEN [err |-> upstream.findErr, users |-> <<>>]
           ELSE [err |-> "nil", users |-> upstream.users] }
    ELSE { [err |-> "rpc error", users |-> <<>>] }
         \cup { [err |-> "nil", users |-> us] : us \in UserLists }
AllowAnswers(a, domain) ==
    IF Cancelled THEN {"context canceled"}
    ELSE IF upstream.fixed
    THEN { IF upstream.fault THEN "driver fault" ELSE Verdict(a, domain) }
    ELSE { Verdict(a, domain), "driver fault" }

InitState ==
    /\ NewFuncs \in Registries
    /\ rawConfig = NoRawConfig
    /\ conf = NilConf
    /\ authorizer = NilAuthorizer
    /\ mw = NotBuilt
    /\ buildTrace = <<>>
    /\ pc = "idle"
    /\ r = NoRequest
    /\ username = ""
    /\ userRes = <<>>
    /\ userAuth = <<>>
    /\ domainSplit = <<>>
    /\ trace = <<>>
    /\ err = "nil"
    /\ other = IdleHandler
    /\ remembered = NoMemory

Init == InitState /\ upstream = AnyUpstream
InitFixed == InitState /\ upstream \in FixedUpstreams

\* New(m), called once at server startup.
New ==
    /\ mw = NotBuilt
    /\ \E m \in ConfigChoices :
         LET n == NewResult(NewFuncs, m) IN
         /\ rawConfig' = m
         /\ conf' = n.conf
         /\ authorizer' = n.authorizer
         /\ mw' = n.ret
         /\ buildTrace' = n.trace
         /\ err' = n.ret.err
    /\ UNCHANGED << NewFuncs, sched, pc, r, locals, trace >>

\* The server hands a request to the installed handler.
Serve ==
    /\ mw.handler = "handler"
    /\ pc \in {"idle", "returned", "panicked"}
    /\ \E req \in Requests : r' = req
    /\ pc' = "ShiftPath"
    /\ username' = ""
    /\ userRes' = <<>>
    /\ userAuth' = <<>>
    /\ domainSplit' = <<>>
    /\ trace' = <<>>
    /\ remembered' = [remembered EXCEPT !.old = remembered.set]
    /\ UNCHANGED << built, upstream, other >>

\* Activation check (router.ShiftPath against conf.OCMPrefix).
Activation ==
    /\ pc = "ShiftPath"
    /\ IF ActivationSkips(r.path, conf.OCMPrefix)
       THEN /\ trace' = trace \o << LogEv("skipping provider authorizer check"),
                                    ServeHTTP(r) >>
            /\ pc' = "returned"
       ELSE /\ trace' = trace
            /\ pc' = "BasicAuth"
    /\ UNCHANGED << built, sched, r, locals >>

BasicAuth_noLog ==
    /\ pc = "BasicAuth"
    /\ IF BasicAuthMissing(r)
       THEN /\ trace' = trace \o << Ev("BasicAuth"),
                                    WriteHeader(StatusUnauthorized) >>
            /\ pc' = "returned"
            /\ username' = username
       ELSE /\ trace' = trace \o << Ev("BasicAuth") >>
            /\ pc' = "GetGatewayServiceClient"
            /\ username' = r.basic.username
    /\ UNCHANGED << built, sched, r, userRes, userAuth, domainSplit >>

\* username, _, ok := r.BasicAuth()
BasicAuth ==
    /\ pc = "BasicAuth"
    /\ IF BasicAuthMissing(r)
       THEN /\ trace' = trace \o << Ev("BasicAuth"),
                                    LogEv("no basic auth provided"),
                                    WriteHeader(StatusUnauthorized) >>
            /\ pc' = "returned"
            /\ username' = username
       ELSE /\ trace' = trace \o << Ev("BasicAuth") >>
            /\ pc' = "GetGatewayServiceClient"
            /\ username' = r.basic.username
    /\ UNCHANGED << built, sched, r, userRes, userAuth, domainSplit >>

GetGatewayServiceClient_sharedErr ==
    /\ pc = "GetGatewayServiceClient"
    /\ \E e \in GatewayAnswers :
         LET call == [Ev("GetGatewayServiceClient") EXCEPT
                        !.text = conf.GatewaySvc, !.err = e]
         IN /\ err' = e
            /\ IF e # "nil"
               THEN /\ trace' = trace \o << call,
                                            LogEv("error getting the grpc client"),
                                            WriteHeader(StatusInternalServerError) >>
                    /\ pc' = "returned"
               ELSE /\ trace' = trace \o << call >>
                    /\ pc' = "FindUsers"
    /\ UNCHANGED << NewFuncs, rawConfig, conf, authorizer, mw, buildTrace,
                    sched, r, locals >>

\* pool.GetGatewayServiceClient(conf.GatewaySvc)
GetGatewayServiceClient ==
    /\ pc = "GetGatewayServiceClient"
    /\ \E e \in GatewayAnswers :
         LET call == [Ev("GetGatewayServiceClient") EXCEPT
                        !.text = conf.GatewaySvc, !.err = e]
         IN IF e # "nil"
            THEN /\ trace' = trace \o << call,
                                         LogEv("error getting the grpc client"),
                                         WriteHeader(StatusInternalServerError) >>
                 /\ pc' = "returned"
            ELSE /\ trace' = trace \o << call >>
                 /\ pc' = "FindUsers"
    /\ UNCHANGED << built, sched, r, locals >>

FindUsers_ignoreErr ==
    /\ pc = "FindUsers"
    /\ \E ans \in FindAnswers :
         LET call == [Ev("FindUsers") EXCEPT !.text = username, !.err = ans.err]
         IN /\ userRes' = ans.users
            /\ trace' = trace \o << call >>
            /\ pc' = "select"
    /\ UNCHANGED << built, sched, r, username, userAuth, domainSplit >>

FindUsers_retry ==
    /\ pc = "FindUsers"
    /\ \E ans \in FindAnswers :
         LET call == [Ev("FindUsers") EXCEPT !.text = username, !.err = ans.err]
         IN IF ans.err # "nil"
            THEN /\ trace' = trace \o << call >>
                 /\ pc' = "FindUsers"
                 /\ userRes' = userRes
            ELSE /\ userRes' = ans.users
                 /\ trace' = trace \o << call >>
                 /\ pc' = "select"
    /\ UNCHANGED << built, sched, r, username, userAuth, domainSplit >>

\* gatewayClient.FindUsers(ctx, {Filter: username})
FindUsers ==
    /\ pc = "FindUsers"
    /\ \E ans \in FindAnswers :
         LET call == [Ev("FindUsers") EXCEPT !.text = username, !.err = ans.err]
         IN IF ans.err # "nil"
            THEN /\ trace' = trace \o << call,
                                         LogEv("error searching for the user"),
                                         WriteHeader(StatusInternalServerError) >>
                 /\ pc' = "returned"
                 /\ userRes' = userRes
            ELSE /\ userRes' = ans.users
                 /\ trace' = trace \o << call >>
                 /\ pc' = "select"
    /\ UNCHANGED << built, sched, r, username, userAuth, domainSplit >>

\* The selection loop and the split of userAuth.Mail: reading Mail through
\* a nil userAuth panics.
SelectAndSplit ==
    /\ pc = "select"
    /\ LET sel == SelectUser(userRes, username) IN
       /\ userAuth' = sel
       /\ IF sel = <<>>
          THEN /\ pc' = "panicked"
               /\ domainSplit' = domainSplit
               /\ trace' = trace \o << Ev("panic") >>
          ELSE LET ds == Split(sel[1].Mail, At) IN
               /\ domainSplit' = ds
               /\ IF MailMalformed(ds)
                  THEN /\ trace' = trace \o << LogEv("user mail must contain domain"),
                                               WriteHeader(StatusBadRequest) >>
                       /\ pc' = "returned"
                  ELSE /\ trace' = trace
                       /\ pc' = "IsProviderAllowed"
    /\ UNCHANGED << built, sched, r, username, userRes >>

IsProviderAllowed_sticky ==
    /\ pc = "IsProviderAllowed"
    /\ \E e \in AllowAnswers(authorizer, DomainArg(domainSplit)) :
         LET call == [Ev("IsProviderAllowed") EXCEPT
                        !.auth = authorizer, !.dom = DomainArg(domainSplit),
                        !.err = e]
             kept == IF e # "nil" THEN e ELSE err
         IN /\ err' = kept
            /\ IF ProviderDenied(kept)
               THEN trace' = trace \o << call, LogEv("provider not registered in OCM"),
                                         WriteHeader(StatusUnauthorized) >>
               ELSE trace' = trace \o << call, ServeHTTP(r) >>
    /\ pc' = "returned"
    /\ UNCHANGED << NewFuncs, rawConfig, conf, authorizer, mw, buildTrace,
                    sched, r, locals >>

IsProviderAllowed_rebuild ==
    /\ pc = "IsProviderAllowed"
    /\ LET g == getDriver(NewFuncs, conf) IN
       /\ authorizer' = g.authorizer
       /\ buildTrace' = buildTrace \o g.trace
       /\ \E e \in AllowAnswers(g.authorizer, DomainArg(domainSplit)) :
            LET call == [Ev("IsProviderAllowed") EXCEPT
                           !.auth = g.authorizer, !.dom = DomainArg(domainSplit),
                           !.err = e]
            IN IF ProviderDenied(e)
               THEN trace' = trace \o << call, LogEv("provider not registered in OCM"),
                                         WriteHeader(StatusUnauthorized) >>
               ELSE trace' = trace \o << call, ServeHTTP(r) >>
    /\ pc' = "returned"
    /\ UNCHANGED << NewFuncs, rawConfig, conf, mw, err, sched, r, locals >>

\* authorizer.IsProviderAllowed(ctx, domainSplit[1]) and the forward.  The
\* driver answers with its verdict or fails (fault, cancelled context).
IsProviderAllowed ==
    /\ pc = "IsProviderAllowed"
    /\ \E e \in AllowAnswers(authorizer, DomainArg(domainSplit)) :
         LET call == [Ev("IsProviderAllowed") EXCEPT
                        !.auth = authorizer, !.dom = DomainArg(domainSplit),
                        !.err = e]
         IN IF ProviderDenied(e)
            THEN trace' = trace \o << call, LogEv("provider not registered in OCM"),
                                      WriteHeader(StatusUnauthorized) >>
            ELSE trace' = trace \o << call, ServeHTTP(r) >>
    /\ pc' = "returned"
    /\ UNCHANGED << built, sched, r, locals >>

\* How a handler run ended: the status codes written, the number of
\* downstream invocations, and whether it panicked.
RECURSIVE CodesOf(_)
CodesOf(tr) ==
    IF tr = <<>> THEN <<>>
    ELSE (IF Head(tr).ev = "WriteHeader" THEN << Head(tr).code >> ELSE <<>>)
         \o CodesOf(Tail(tr))
ForwardsOf(tr) == Cardinality({ i \in 1..Len(tr) : tr[i].ev = "ServeHTTP" })
OutcomeOf(tr, p) ==
    [codes |-> CodesOf(tr), forwarded |-> ForwardsOf(tr), panicked |-> p = "panicked"]

\* The handler has returned (or panicked): its outcome is kept for later
\* comparison with a repetition of the request.
Remember ==
    /\ upstream.fixed
    /\ pc \in {"returned", "panicked"}
    /\ remembered' = [set |-> TRUE, old |-> FALSE, req |-> r,
                      outcome |-> OutcomeOf(trace, pc)]
    /\ UNCHANGED << built, upstream, other, pc, r, locals, trace >>

\* The server runs the handler of each request in its own goroutine: the
\* running request is suspended and the other one continues.
Switch ==
    /\ mw.handler = "handler"
    /\ other' = [pc |-> pc, r |-> r, username |-> username, userRes |-> userRes,
                 userAuth |-> userAuth, domainSplit |-> domainSplit,
                 trace |-> trace]
    /\ pc' = other.pc
    /\ r' = other.r
    /\ username' = other.username
    /\ userRes' = other.userRes
    /\ userAuth' = other.userAuth
    /\ domainSplit' = other.domainSplit
    /\ trace' = other.trace
    /\ UNCHANGED << built, upstream, remembered >>

\* The context of the running request (ctx := r.Context()) is cancelled or
\* its deadline passes.
Cancel ==
    /\ pc \notin {"idle", "returned", "panicked"}
    /\ ~ Cancelled
    /\ trace' = trace \o << [Ev("cancel") EXCEPT !.text = pc] >>
    /\ UNCHANGED << built, sched, pc, r, locals >>

Next ==
    \/ New
    \/ Serve
    \/ Activation
    \/ BasicAuth
    \/ GetGatewayServiceClient
    \/ FindUsers
    \/ SelectAndSplit
    \/ IsProviderAllowed

Spec == Init /\ [][Next]_vars

\* Requests repeated against collaborators that keep answering the same.
NextIdem == Next \/ Remember
SpecIdem == InitFixed /\ [][NextIdem]_vars

\* Two requests in flight on the same middleware, interleaved step by step.
NextConc == Next \/ Switch
SpecConc == InitFixed /\ [][NextConc]_vars

\* Requests whose context may be cancelled.  The handler's own steps always
\* go on; a call that takes the context returns once the context is done.
NextCancel == Next \/ Cancel
FairCancel ==
    /\ WF_vars(Activation)
    /\ WF_vars(BasicAuth)
    /\ WF_vars(GetGatewayServiceClient)
    /\ WF_vars(SelectAndSplit)
    /\ WF_vars(Cancelled /\ FindUsers)
    /\ WF_vars(Cancelled /\ IsProviderAllowed)
SpecCancel == InitFixed /\ [][NextCancel]_vars /\ FairCancel

TypeOK ==
    /\ pc \in {"idle", "ShiftPath", "BasicAuth", "GetGatewayServiceClient",
               "FindUsers", "select", "IsProviderAllowed", "returned", "panicked"}
    /\ Len(userAuth) <= 1
    /\ Len(userRes) <= MaxUsers

\* ------------------------------------------------------------ properties
\* Vocabulary of the properties, defined on the request, the raw
\* configuration and the trace, not on the handler's own helpers.
Has(kind) == \E i \in 1..Len(trace) : trace[i].ev = kind
Count(kind) == Cardinality({ i \in 1..Len(trace) : trace[i].ev = kind })
IsStatus(e) == e.ev = "WriteHeader"
Statuses == SelectSeq(trace, IsStatus)
Finished == pc \in {"returned", "panicked"}
ExpectedPrefix ==
    IF rawConfig.ocm_prefix.val = "" THEN "ocm" ELSE rawConfig.ocm_prefix.val
InFlight == pc # "idle"
Prefixed == InFlight /\ r.path # <<>> /\ r.path[1] = ExpectedPrefix
Unprefixed == InFlight /\ ~ Prefixed
\* The identity lookup was made and returned a candidate list.
LookupOK == \E i \in 1..Len(trace) : trace[i].ev = "FindUsers" /\ trace[i].err = "nil"
LookupFailed ==
    \E i \in 1..Len(trace) :
        trace[i].ev \in {"GetGatewayServiceClient", "FindUsers"} /\ trace[i].err # "nil"
Matches == { i \in 1..Len(userRes) : userRes[i].Username = r.basic.username }
FirstMatch == userRes[CHOOSE i \in Matches : \A j \in Matches : i <= j]
AtCount(mail) == Cardinality({ i \in 1..Len(mail) : mail[i] = "@" })
AfterAt(mail) ==
    LET i == CHOOSE k \in 1..Len(mail) : mail[k] = "@"
    IN SubSeq(mail, i + 1, Len(mail))
\* local@domain with one '@' and both parts non-empty.
WellFormed(mail) ==
    /\ AtCount(mail) = 1
    /\ mail[1] # "@"
    /\ mail[Len(mail)] # "@"
NoCollaboratorCall ==
    ~ Has("GetGatewayServiceClient") /\ ~ Has("FindUsers") /\ ~ Has("IsProviderAllowed")

\* C1: a request under the prefix reaches the downstream handler only after,
\* in the same request, Basic Auth was present, the lookup succeeded, a user
\* with exactly the Basic Auth username was selected, and IsProviderAllowed
\* returned no error for the domain of that user's e-mail.
C1_GateSafety ==
    (Prefixed /\ Has("ServeHTTP")) =>
        /\ r.basic.ok
        /\ LookupOK
        /\ Matches # {}
        /\ userAuth = << FirstMatch >>
        /\ userAuth[1].Username = r.basic.username
        /\ AtCount(userAuth[1].Mail) = 1
        /\ \E i, j \in 1..Len(trace) :
              /\ i < j
              /\ trace[i].ev = "IsProviderAllowed"
              /\ trace[i].err = "nil"
              /\ trace[i].dom = AfterAt(userAuth[1].Mail)
              /\ trace[j].ev = "ServeHTTP"
C1_Witness == pc = "returned" /\ Prefixed /\ Has("ServeHTTP")

\* C2: a request outside the prefix is forwarded exactly once, unmodified,
\* with no status written and no Basic Auth check, gateway/FindUsers call or
\* IsProviderAllowed call.
C2_UnprefixedPassThrough ==
    Unprefixed =>
        /\ Statuses = <<>>
        /\ ~ Has("BasicAuth")
        /\ NoCollaboratorCall
        /\ pc \in {"ShiftPath", "returned"}
        /\ pc = "returned" =>
              /\ Count("ServeHTTP") = 1
              /\ \A i \in 1..Len(trace) : trace[i].ev = "ServeHTTP" => trace[i].req = r
C2_Witness == pc = "returned" /\ Unprefixed /\ r.path # <<>> /\ r.basic.ok

\* C3: a request under the prefix without Basic Auth credentials gets 401,
\* never reaches the downstream handler, and neither the identity resolver
\* nor the authorizer is called.
C3_NoBasicAuthIs401 ==
    (Prefixed /\ ~ r.basic.ok) =>
        /\ ~ Has("ServeHTTP")
        /\ NoCollaboratorCall
        /\ pc \in {"ShiftPath", "BasicAuth", "returned"}
        /\ pc = "returned" =>
              /\ Len(Statuses) = 1
              /\ Statuses[1].code = 401
C3_Witness == pc = "returned" /\ Prefixed /\ ~ r.basic.ok

\* C4 (as claimed): when the lookup returns no candidate with exactly the
\* Basic Auth username, the handler ends with 401, without calling the
\* authorizer and without invoking the downstream handler.
C4_NoMatchIs401 ==
    (Prefixed /\ LookupOK /\ Matches = {} /\ pc # "select") =>
        /\ pc = "returned"
        /\ Len(Statuses) = 1
        /\ Statuses[1].code = 401
        /\ ~ Has("IsProviderAllowed")
        /\ ~ Has("ServeHTTP")

\* C5 (as claimed): when the selected user's e-mail is not local@domain with
\* exactly one '@' and two non-empty parts, the handler ends with 400,
\* without calling IsProviderAllowed or the downstream handler.
C5_MalformedMailIs400 ==
    (Prefixed /\ userAuth # <<>> /\ ~ WellFormed(userAuth[1].Mail)) =>
        /\ pc = "returned"
        /\ Len(Statuses) = 1
        /\ Statuses[1].code = 400
        /\ ~ Has("IsProviderAllowed")
        /\ ~ Has("ServeHTTP")

\* C6: when IsProviderAllowed returns an error, whichever it is, the
\* response is 401 and the downstream handler is never invoked.
C6_AnyProviderErrorIs401 ==
    (Prefixed /\ \E i \in 1..Len(trace) :
                    trace[i].ev = "IsProviderAllowed" /\ trace[i].err # "nil") =>
        /\ pc = "returned"
        /\ Len(Statuses) = 1
        /\ Statuses[1].code = 401
        /\ ~ Has("ServeHTTP")
C6_Witness ==
    /\ pc = "returned"
    /\ \E i \in 1..Len(trace) :
          trace[i].ev = "IsProviderAllowed" /\ trace[i].err = "driver fault"

\* C7: when obtaining the gateway client or the FindUsers call fails, the
\* response is 500, the authorizer is not called and the downstream handler
\* is never invoked.
C7_LookupFailureIs500 ==
    (Prefixed /\ r.basic.ok /\ LookupFailed) =>
        /\ pc = "returned"
        /\ Len(Statuses) = 1
        /\ Statuses[1].code = 500
        /\ ~ Has("IsProviderAllowed")
        /\ ~ Has("ServeHTTP")
C7_Witness ==
    /\ pc = "returned"
    /\ \E i \in 1..Len(trace) : trace[i].ev = "FindUsers" /\ trace[i].err # "nil"

\* C8: when the lookup yields an exact-username match (the first one) with
\* e-mail local@domain, IsProviderAllowed is called once, with exactly the
\* part after the '@'; when it returns no error the downstream handler is
\* invoked exactly once, with the original request, and no status is written.
C8_SuccessPath ==
    (Prefixed /\ r.basic.ok /\ LookupOK /\ pc = "returned"
       /\ Matches # {} /\ WellFormed(FirstMatch.Mail)) =>
        /\ Count("IsProviderAllowed") = 1
        /\ \A i \in 1..Len(trace) :
              trace[i].ev = "IsProviderAllowed" =>
                  /\ trace[i].dom = AfterAt(FirstMatch.Mail)
                  /\ trace[i].err = "nil" =>
                        /\ Statuses = <<>>
                        /\ Count("ServeHTTP") = 1
                        /\ \E j \in (i + 1)..Len(trace) :
                              trace[j].ev = "ServeHTTP" /\ trace[j].req = r
C8_Witness ==
    /\ pc = "returned" /\ Prefixed /\ Has("ServeHTTP")
    /\ Len(userRes) = 2 /\ userRes[1].Username # r.basic.username
    /\ AfterAt(userAuth[1].Mail) = <<"x">>

\* The driver the raw configuration names, its factory and its settings bag.
RawName == rawConfig.driver.val
RawSettings ==
    IF RawName \in DOMAIN rawConfig.drivers
    THEN rawConfig.drivers[RawName] ELSE NilSettings
Undecodable ==
    \E k \in {"driver", "ocm_prefix", "gatewaysvc"} : rawConfig[k].type # "string"
Unregistered == ~ Undecodable /\ RawName \notin DOMAIN NewFuncs
FactoryFails ==
    /\ ~ Undecodable
    /\ RawName \in DOMAIN NewFuncs
    /\ Factory(NewFuncs[RawName], RawSettings).err # "nil"
NewReturned == mw # NotBuilt

\* C9: when the driver name has no registered factory, the factory returns
\* an error, or the raw configuration cannot be decoded, New returns an error
\* and no handler, invokes no other driver's factory, and no request is ever
\* served.
C9_ConstructionFailsClosed ==
    (NewReturned /\ (Unregistered \/ FactoryFails \/ Undecodable)) =>
        /\ mw.handler = "nil"
        /\ mw.err # "nil"
        /\ \A i \in 1..Len(buildTrace) :
              buildTrace[i].ev = "factory" =>
                  RawName \in DOMAIN NewFuncs /\ buildTrace[i].name = NewFuncs[RawName]
        /\ pc = "idle"
        /\ trace = <<>>
C9_Witness == NewReturned /\ Unregistered /\ mw.err = "driver not found"

\* C10: a middleware built with a registered name decides every request
\* with the authorizer that name's factory returned, and that factory was
\* given exactly the settings bag stored under the same name.
C10_DriverSelection ==
    mw.handler = "handler" =>
        /\ RawName \in DOMAIN NewFuncs
        /\ Cardinality({ i \in 1..Len(buildTrace) : buildTrace[i].ev = "factory" }) = 1
        /\ \A i \in 1..Len(buildTrace) :
              buildTrace[i].ev = "factory" =>
                  /\ buildTrace[i].name = NewFuncs[RawName]
                  /\ buildTrace[i].settings = RawSettings
        /\ \A i \in 1..Len(trace) :
              trace[i].ev = "IsProviderAllowed" =>
                  /\ trace[i].auth = Factory(NewFuncs[RawName], RawSettings).authorizer
                  /\ trace[i].err = "nil" =>
                        Verdict(Factory(NewFuncs[RawName], RawSettings).authorizer,
                                trace[i].dom) = "nil"
C10_Witness ==
    /\ pc = "returned"
    /\ Has("IsProviderAllowed")
    /\ DOMAIN rawConfig.drivers = DriverNames
    /\ rawConfig.drivers["json"] # rawConfig.drivers["open"]
    /\ RawName = "json"

\* C13 (as claimed): every request ends with exactly one of: one status
\* from {401, 500, 400} and no downstream call, or one downstream call and
\* no status; never both, never neither, never two statuses.
C13_ExactlyOneOutcome ==
    Finished =>
        \/ /\ Len(Statuses) = 1
           /\ Statuses[1].code \in {401, 500, 400}
           /\ Count("ServeHTTP") = 0
        \/ /\ Statuses = <<>>
           /\ Count("ServeHTTP") = 1

\* C14: the domain submitted to the authorizer is that of the first
\* candidate, in returned order, whose username equals the Basic Auth
\* username; earlier candidates with another username and later exact
\* duplicates are not used.
C14_FirstMatchWins ==
    /\ userAuth # <<>> => (Matches # {} /\ userAuth = << FirstMatch >>)
    /\ \A i \in 1..Len(trace) :
          trace[i].ev = "IsProviderAllowed" =>
              /\ Matches # {}
              /\ trace[i].dom = AfterAt(FirstMatch.Mail)
C14_Witness ==
    /\ pc = "returned"
    /\ Has("IsProviderAllowed")
    /\ Len(userRes) = 2
    /\ userRes[1].Username = r.basic.username
    /\ userRes[2].Username = r.basic.username
    /\ userRes[1].Mail = <<"a", "@", "x">>
    /\ userRes[2].Mail = <<"b", "@", "y">>

\* The registry lookups and factory calls New made.
BuildCount(kind) ==
    Cardinality({ i \in 1..Len(buildTrace) : buildTrace[i].ev = kind })
ExpectedGateway ==
    IF rawConfig.gatewaysvc.val = "" THEN SharedGatewaySvc ELSE rawConfig.gatewaysvc.val

\* C16: New looks the registry up and invokes the factory once, before any
\* request is handled; handling requests never does so again, every request
\* is decided by that one authorizer, and the configuration (driver, prefix,
\* gateway address) is not changed by request handling.
C16_BuiltOnce ==
    /\ [](~ NewReturned => (buildTrace = <<>> /\ pc = "idle" /\ trace = <<>>))
    /\ [](BuildCount("lookup") <= 1 /\ BuildCount("factory") <= 1)
    /\ [](mw.handler = "handler" =>
            /\ BuildCount("lookup") = 1
            /\ BuildCount("factory") = 1
            /\ conf.Driver = RawName
            /\ conf.OCMPrefix = ExpectedPrefix
            /\ conf.GatewaySvc = ExpectedGateway
            /\ \A i \in 1..Len(trace) :
                  trace[i].ev = "IsProviderAllowed" => trace[i].auth = authorizer)
    /\ [][NewReturned =>
            UNCHANGED << NewFuncs, buildTrace, authorizer, conf, mw >>]_vars
C16_Witness ==
    /\ pc = "returned"
    /\ Has("IsProviderAllowed")
    /\ BuildCount("factory") = 1
    /\ conf.GatewaySvc = SharedGatewaySvc

IsCall(e) == e.ev \in {"GetGatewayServiceClient", "FindUsers", "IsProviderAllowed"}

\* C17: within one request FindUsers is called at most once, after the Basic
\* Auth credentials were extracted; IsProviderAllowed at most once, after a
\* successful lookup and a successful domain extraction; no status is
\* written after the downstream handler was invoked and no collaborator is
\* called after a status was written.
C17_CallOrder ==
    /\ Count("FindUsers") <= 1
    /\ Count("IsProviderAllowed") <= 1
    /\ \A i \in 1..Len(trace) :
          /\ trace[i].ev = "FindUsers" =>
                /\ r.basic.ok
                /\ \E j \in 1..(i - 1) : trace[j].ev = "BasicAuth"
          /\ trace[i].ev = "IsProviderAllowed" =>
                /\ \E j \in 1..(i - 1) :
                      trace[j].ev = "FindUsers" /\ trace[j].err = "nil"
                /\ userAuth # <<>>
                /\ AtCount(userAuth[1].Mail) = 1
                /\ trace[i].dom = AfterAt(userAuth[1].Mail)
          /\ trace[i].ev = "ServeHTTP" =>
                \A j \in (i + 1)..Len(trace) : trace[j].ev # "WriteHeader"
          /\ trace[i].ev = "WriteHeader" =>
                \A j \in (i + 1)..Len(trace) : ~ IsCall(trace[j])
C17_Witness ==
    /\ pc = "returned"
    /\ Has("FindUsers")
    /\ Has("IsProviderAllowed")
    /\ Has("WriteHeader")

\* C18: every status a rejection branch writes is preceded by a log entry,
\* and the prefix-mismatch skip logs before it forwards the request.
C18_LogBeforeReject ==
    \A i \in 1..Len(trace) :
        /\ trace[i].ev = "WriteHeader" => (i > 1 /\ trace[i - 1].ev = "log")
        /\ (Unprefixed /\ trace[i].ev = "ServeHTTP") =>
              (i > 1 /\ trace[i - 1].ev = "log")
C18_Witness ==
    /\ pc = "returned"
    /\ Prefixed
    /\ Len(Statuses) = 1
    /\ Statuses[1].code = 400

Outcome == OutcomeOf(trace, pc)

\* C11: with the identity resolver and the authorizer answering the same
\* way, a request handled again, after any other requests, ends as it ended
\* before: same status code or same pass-through.
C11_Idempotent ==
    (Finished /\ remembered.old /\ remembered.req = r) =>
        Outcome = remembered.outcome
C11_Witness ==
    /\ Finished
    /\ remembered.old
    /\ remembered.req = r
    /\ Prefixed
    /\ Has("IsProviderAllowed")
    /\ Outcome.forwarded = 1

CancelledAt(p) ==
    \E i \in 1..Len(trace) : trace[i].ev = "cancel" /\ trace[i].text = p

\* C12: when the request's context is cancelled while the FindUsers call is
\* pending the handler ends with 500, when it is cancelled while the
\* IsProviderAllowed call is pending it ends with 401; in both cases the
\* handler terminates and the downstream handler is not invoked.
C12_Cancellation ==
    /\ []((CancelledAt("FindUsers") \/ CancelledAt("IsProviderAllowed")) =>
             ~ Has("ServeHTTP"))
    /\ []((Finished /\ CancelledAt("FindUsers")) =>
             (pc = "returned" /\ Outcome.codes = << 500 >>))
    /\ []((Finished /\ CancelledAt("IsProviderAllowed")) =>
             (pc = "returned" /\ Outcome.codes = << 401 >>))
    /\ (CancelledAt("FindUsers") ~> Finished)
    /\ (CancelledAt("IsProviderAllowed") ~> Finished)
C12_Witness ==
    /\ pc = "returned"
    /\ CancelledAt("IsProviderAllowed")
    /\ Outcome.codes = << 401 >>
    /\ authorizer.factory = "openFactory"

\* How a request ends when it is handled alone, against the fixed answers of
\* the collaborators, by the authorizer the configuration selects.
Pass == [codes |-> <<>>, forwarded |-> 1, panicked |-> FALSE]
Reject(code) == [codes |-> << code >>, forwarded |-> 0, panicked |-> FALSE]
Panic == [codes |-> <<>>, forwarded |-> 0, panicked |-> TRUE]
AloneOutcome(req) ==
    IF req.path = <<>> \/ req.path[1] # ExpectedPrefix THEN Pass
    ELSE IF ~ req.basic.ok THEN Reject(401)
    ELSE IF upstream.gw # "nil" \/ upstream.findErr # "nil" THEN Reject(500)
    ELSE LET ms == { i \in 1..Len(upstream.users) :
                       upstream.users[i].Username = req.basic.username }
         IN IF ms = {} THEN Panic
            ELSE LET mail == upstream.users[CHOOSE i \in ms : \A j \in ms : i <= j].Mail
                 IN IF AtCount(mail) # 1 THEN Reject(400)
                    ELSE IF upstream.fault
                            \/ Verdict(Factory(NewFuncs[RawName], RawSettings).authorizer,
                                       AfterAt(mail)) # "nil"
                    THEN Reject(401)
                    ELSE Pass
Ended(p) == p \in {"returned", "panicked"}

\* C15: with two requests in flight on one middleware, under every
\* interleaving of their steps each request ends as it ends when handled
\* alone, and no handler step writes the configuration, the authorizer
\* reference or the captured construction-time err.
C15_ConcurrentIndependent ==
    /\ [](Ended(pc) => Outcome = AloneOutcome(r))
    /\ [](Ended(other.pc) => OutcomeOf(other.trace, other.pc) = AloneOutcome(other.r))
    /\ [][NewReturned =>
            UNCHANGED << rawConfig, conf, authorizer, err, NewFuncs >>]_vars
C15_Witness ==
    /\ pc = "returned"
    /\ Prefixed
    /\ Has("IsProviderAllowed")
    /\ other.pc = "IsProviderAllowed"
    /\ other.r # r
    /\ other.r.basic.ok

====
